---------------------------- MODULE Spec2Model ----------------------------
(***************************************************************************)
(* A model of main.py (Chatbot Builder & Deployer): the process-wide bot   *)
(* registry `bots` guarded by `bots_lock`, the BotInstance objects with    *)
(* their own lock, history and pipeline binding, the local history files   *)
(* under DATA_DIR, and the memory server reached over HTTP.  Every request *)
(* handler runs on a thread of its own; an action is one step of one       *)
(* handler between two points where another thread can be scheduled.       *)
(***************************************************************************)
EXTENDS Integers, Sequences, FiniteSets, TLC

(* ------------------------------ bounds -------------------------------- *)

\* Number of request threads that run concurrently.
MaxThreads == 2

\* Number of requests served in one run of the process.
MaxRequests == 3

\* Length of the histories handed to persist_local_history on its own.
MaxHistory == 2

(* ------------------------- program constants -------------------------- *)

DefaultPersona == "You are a helpful assistant."

DefaultMaxLength == 128

\* The reply of BotInstance.chat when no pipeline is bound.
Fallback == "Model not available."

(* --------------------------- input domains ---------------------------- *)

Threads == 1..MaxThreads

\* Bot names as sequences of characters, so that strip() is computed.
\* Names create_bot accepts, names it rejects, and the names deploy_bot,
\* bot_chat and bot_history are asked for.
CreateNames == { <<"a">>, <<" ", "a">>, <<"b">> }

BlankNames == { <<>>, <<" ">> }

PathNames == { <<"a">>, <<"b">> }

\* The suffix of a config blob's file name, written as one character.
BotJson == ".bot.json"

\* The name "b.bot.json?", which deploy_bot takes like any other string.
QueryName == << "b", BotJson, "?" >>

RawNames == CreateNames \cup BlankNames \cup PathNames \cup { QueryName }

\* body.get("message"): absent (None), empty, or a text.
NoMessage == [present |-> FALSE, text |-> ""]

FalsyMessages == { NoMessage, [present |-> TRUE, text |-> ""] }

\* What the text-generation pipeline may return for a prompt.
GeneratedTexts == { "Hello." }

(* ----------------------------- values --------------------------------- *)

IsSpace(c) == c = " "

RECURSIVE lstrip(_)
lstrip(s) == IF s # <<>> /\ IsSpace(Head(s)) THEN lstrip(Tail(s)) ELSE s

RECURSIVE rstrip(_)
rstrip(s) ==
    IF s # <<>> /\ IsSpace(s[Len(s)]) THEN rstrip(SubSeq(s, 1, Len(s) - 1)) ELSE s

\* str.strip()
strip(s) == rstrip(lstrip(s))

BotConfig(name, persona, max_length) ==
    [name |-> name, persona |-> persona, max_length |-> max_length]

\* A history entry {"role": ..., "text": ...}.  `call` is a history variable
\* of the verification (the number of the request that appended the entry,
\* 0 for an entry read from a file); it is not stored in any file.
Entry(role, text, call) == [role |-> role, text |-> text, call |-> call]

\* The entries as Python values: the history variable `call` is no part of
\* them.
Stored(h) == [i \in 1..Len(h) |-> Entry(h[i].role, h[i].text, 0)]

\* json.dump(history, f): the text written, as its sequence of tokens: the
\* brackets of the list, and for each entry the braces of the object around
\* the values of "role" and "text", in list order.
RECURSIVE json_dump_entries(_)
json_dump_entries(h) ==
    IF h = <<>> THEN <<>>
    ELSE << "{", Head(h).role, Head(h).text, "}" >> \o json_dump_entries(Tail(h))

json_dump(h) == << "[" >> \o json_dump_entries(h) \o << "]" >>

\* The objects of a list body: each is "{" role text "}"; anything else is
\* a JSONDecodeError.
RECURSIVE json_load_entries(_)
json_load_entries(toks) ==
    IF toks = <<>> THEN [raised |-> FALSE, value |-> <<>>]
    ELSE IF Len(toks) < 4 \/ toks[1] # "{" \/ toks[4] # "}"
            \/ toks[2] \in {"[", "]", "{", "}"} \/ toks[3] \in {"[", "]", "{", "}"}
    THEN [raised |-> TRUE, value |-> <<>>]
    ELSE LET rest == json_load_entries(SubSeq(toks, 5, Len(toks))) IN
         IF rest.raised THEN rest
         ELSE [raised |-> FALSE,
               value |-> << Entry(toks[2], toks[3], 0) >> \o rest.value]

\* json.load(f): the list the text denotes, or an exception.
json_load(toks) ==
    IF Len(toks) < 2 \/ toks[1] # "[" \/ toks[Len(toks)] # "]"
    THEN [raised |-> TRUE, value |-> <<>>]
    ELSE json_load_entries(SubSeq(toks, 2, Len(toks) - 1))

\* Contents of bots/<name>.history.json.
FileAbsent == [kind |-> "absent", data |-> <<>>, indent |-> FALSE]

\* Just opened with mode "w": zero bytes, which json.load rejects.
FileEmpty == [kind |-> "empty", data |-> <<>>, indent |-> FALSE]

\* Bytes of two writers mixed, or anything else json.load rejects.
FileGarbled == [kind |-> "garbled", data |-> <<>>, indent |-> FALSE]

\* Blobs <name>.bot.json of the memory server.
NoBlob == [kind |-> "none", cfg |-> BotConfig(<<>>, "", 0)]

CfgBlob(cfg) == [kind |-> "cfg", cfg |-> cfg]

\* A JSON value that is falsy in Python ({}, [], null, 0, "").
FalsyBlob == [kind |-> "falsy", cfg |-> BotConfig(<<>>, "", 0)]

\* A truthy JSON value BotConfig(**cfg_data) rejects (a field is missing).
BadShapeBlob == [kind |-> "badshape", cfg |-> BotConfig(<<>>, "", 0)]

NoThread == 0

NoBot == 0

NoRequest ==
    [op |-> "none", name |-> <<>>, persona |-> "", max_length |-> 0,
     message |-> NoMessage]

\* The local variables of a handler.
NoLocals ==
    [name |-> <<>>, cfg |-> BotConfig(<<>>, "", 0), pipeline |-> FALSE,
     cfg_data |-> NoBlob, err |-> "", inst |-> NoBot, reply |-> "",
     snap |-> <<>>, call |-> 0]

\* The response of a handler: the HTTP status, what it says, and its payload.
Response(code, tag, val) == [code |-> code, tag |-> tag, val |-> val]

NoResponse == Response(0, "none", <<>>)

VARIABLES
    bots,        \* bots: key -> index into heap, NoBot when the key is absent
    heap,        \* the BotInstance objects ever inserted: cfg, pipeline, history
    agent_lock,  \* BotInstance.lock of each object: the thread holding it
    bots_lock,   \* the thread holding bots_lock, NoThread when free
    local_file,  \* bots/<name>.history.json
    memory_cfg,  \* the memory server's <name>.bot.json
    memory_hist, \* the memory server's <name>.history.json
    pc,          \* where each thread is in its handler
    req,         \* the request each thread serves
    loc,         \* the handler's local variables
    result,      \* the response of the thread's last finished request
    served,      \* number of requests started
    touched,     \* history variable: the thread's request changed the stores
    chat_log     \* history variable: per object, the finished chat() calls

vars == << bots, heap, agent_lock, bots_lock, local_file, memory_cfg,
           memory_hist, pc, req, loc, result, served, touched, chat_log >>


(* --------------------------- initial state ---------------------------- *)

\* A history file left under DATA_DIR by an earlier run of the process.
OldHistory == << Entry("user", "old", 0), Entry("bot", "older", 0) >>

\* indent = TRUE: written by persist_local_history (json.dump(..., indent=2)).
FileJsonFmt(h, indent) == [kind |-> "json", data |-> json_dump(h), indent |-> indent]

InitLocalFiles ==
    { [n \in RawNames |-> IF n = <<"a">> THEN f ELSE FileAbsent] :
        f \in { FileAbsent, FileJsonFmt(OldHistory, TRUE), FileGarbled } }

\* What an earlier run, or another client, left on the memory server.
InitMemoryCfg ==
    { [n \in RawNames |-> IF n = <<"b">> THEN b ELSE NoBlob] :
        b \in { NoBlob, CfgBlob(BotConfig(<<"b">>, "You are terse.", 64)) } }

Init ==
    /\ bots = [n \in RawNames |-> NoBot]
    /\ heap = <<>>
    /\ agent_lock = <<>>
    /\ bots_lock = NoThread
    /\ local_file \in InitLocalFiles
    /\ memory_cfg \in InitMemoryCfg
    /\ \/ local_file[<<"a">>] = FileAbsent
       \/ memory_cfg[<<"b">>] = NoBlob
    /\ memory_hist = [n \in RawNames |-> FileAbsent]
    /\ pc = [t \in Threads |-> "idle"]
    /\ req = [t \in Threads |-> NoRequest]
    /\ loc = [t \in Threads |-> NoLocals]
    /\ result = [t \in Threads |-> NoResponse]
    /\ served = 0
    /\ touched = [t \in Threads |-> FALSE]
    /\ chat_log = <<>>

(* ------------------------------ helpers ------------------------------- *)

\* The request's own effect on the registry, the objects and the stores.
StoresChanged ==
    \/ bots' # bots
    \/ heap' # heap
    \/ local_file' # local_file
    \/ memory_cfg' # memory_cfg
    \/ memory_hist' # memory_hist

Touch(t) == touched' = [touched EXCEPT ![t] = @ \/ StoresChanged]

\* The handler returns or raises: the response is `resp`.
Finish(t, resp) ==
    /\ pc' = [pc EXCEPT ![t] = "done"]
    /\ result' = [result EXCEPT ![t] = resp]
    /\ UNCHANGED loc

\* A thread takes its step at `label`.  The step that hands a finished
\* handler's response to the client (Respond) touches nothing shared, so it
\* is scheduled before any other step: every state other threads can produce
\* is still produced, with the finished thread already idle.
At(t, label) ==
    /\ pc[t] = label
    /\ \A u \in Threads : pc[u] # "done"

\* The handler goes on to `label`, its locals updated in the same step.
Goto(t, label) ==
    /\ pc' = [pc EXCEPT ![t] = label]
    /\ UNCHANGED result

\* The handler goes on to `label` with its locals as they are.
Step(t, label) ==
    /\ Goto(t, label)
    /\ UNCHANGED loc

\* Mutant of RegistryLockFree: the handlers do not wait for bots_lock.
RegistryLockIgnored == TRUE

\* threading.Lock: acquire() blocks while another thread holds the lock.
RegistryLockFree == bots_lock = NoThread

\* Mutant of AgentLockFree: one lock for all BotInstance objects (a class
\* attribute instead of an attribute set in __init__).
AgentLockShared(i) == \A j \in 1..Len(agent_lock) : agent_lock[j] = NoThread

\* self.lock, created per object in __init__.
AgentLockFree(i) == agent_lock[i] = NoThread

\* list(bots.keys())
Keys == { n \in RawNames : bots[n] # NoBot }

\* Mutant of MessageMissing: `if msg is None`, which lets "" through.
MessageIsNone(m) == ~m.present

\* `not msg` in bot_chat: None and "" are both falsy.
MessageMissing(m) == ~m.present \/ m.text = ""

\* The requests clients send.  A handler that rejects the request before
\* it reads a field is given one value of that field.
Requests ==
    { [op |-> "create_bot", name |-> n, persona |-> DefaultPersona,
       max_length |-> DefaultMaxLength, message |-> NoMessage] :
            n \in CreateNames \cup BlankNames }
    \cup
    { [op |-> "create_bot", name |-> <<"a">>, persona |-> "You are terse.",
       max_length |-> 64, message |-> NoMessage] }
    \cup
    { [op |-> o, name |-> n, persona |-> "", max_length |-> 0,
       message |-> NoMessage] : o \in {"deploy_bot", "bot_history"}, n \in PathNames }
    \cup
    { [op |-> "deploy_bot", name |-> QueryName, persona |-> "", max_length |-> 0,
       message |-> NoMessage] }
    \cup
    { [op |-> "bot_chat", name |-> n, persona |-> "", max_length |-> 0,
       message |-> [present |-> TRUE, text |-> "hi"]] : n \in PathNames }
    \cup
    { [op |-> "bot_chat", name |-> <<"a">>, persona |-> "", max_length |-> 0,
       message |-> m] : m \in FalsyMessages }
    \cup
    { [op |-> o, name |-> <<>>, persona |-> "", max_length |-> 0,
       message |-> NoMessage] : o \in {"list_bots", "health"} }

\* A request arrives and a thread starts its handler.
Start(t) ==
    /\ At(t, "idle")
    /\ served < MaxRequests
    /\ \E r \in Requests :
        /\ req' = [req EXCEPT ![t] = r]
        /\ pc' = [pc EXCEPT ![t] = r.op]
    /\ served' = served + 1
    /\ loc' = [loc EXCEPT ![t].call = served + 1]
    /\ UNCHANGED << result, touched >>
    /\ UNCHANGED << bots, heap, agent_lock, bots_lock, local_file, memory_cfg,
                    memory_hist, chat_log >>

(* ------------------------- local persistence -------------------------- *)

\* load_local_history: [] without a file, the parsed list with one, and an
\* exception ("raise") when json.load rejects the bytes.
load_local_history(name) ==
    LET f == local_file[name] IN
    CASE f.kind = "absent" -> [raised |-> FALSE, history |-> <<>>]
      [] f.kind = "json"   -> [raised |-> json_load(f.data).raised,
                               history |-> json_load(f.data).value]
      [] OTHER             -> [raised |-> TRUE, history |-> <<>>]

\* The file after a writer that opened it with "w" (truncating it) writes the
\* bytes of `h` at offset 0 and closes.  Bytes another writer put there since
\* the truncation stay behind the new ones where they reach further.
WriteOutcomes(cur, h, indent) ==
    LET new == FileJsonFmt(h, indent)
        covers == Len(new.data) >= Len(cur.data)
    IN
    CASE cur.kind \in {"empty", "absent"} -> { new }
      [] cur.kind = "garbled" -> { new, FileGarbled }
      [] cur.kind = "json" /\ cur.indent = indent ->
            IF covers THEN { new } ELSE { FileGarbled }
      [] cur.kind = "json" /\ cur.indent /\ ~indent ->
            IF covers THEN { new, FileGarbled } ELSE { FileGarbled }
      [] OTHER ->
            IF covers THEN { new } ELSE { new, FileGarbled }

\* The response leaves; the handler's locals die and the thread is free.
Respond(t) ==
    /\ pc[t] = "done"
    /\ pc' = [pc EXCEPT ![t] = "idle"]
    /\ req' = [req EXCEPT ![t] = NoRequest]
    /\ loc' = [loc EXCEPT ![t] = NoLocals]
    /\ result' = [result EXCEPT ![t] = NoResponse]
    /\ touched' = [touched EXCEPT ![t] = FALSE]
    /\ UNCHANGED << bots, heap, agent_lock, bots_lock, local_file, memory_cfg,
                    memory_hist, served, chat_log >>

(* ----------------------------- create_bot ----------------------------- *)

\* name = req.name.strip(); an empty name is rejected with 400.  Otherwise
\* `with bots_lock:` is entered, which waits for the lock, and
\* `if name in bots: raise HTTPException(400)` leaves it again (an exception
\* that leaves a with block releases the lock).  For a new name the thread
\* goes on, holding bots_lock, to build cfg and the BotInstance.
create_bot(t) ==
    /\ At(t, "create_bot")
    /\ LET name == strip(req[t].name) IN
        IF name = <<>>
        THEN /\ Finish(t, Response(400, "name required", <<>>))
             /\ UNCHANGED bots_lock
        ELSE /\ RegistryLockFree
             /\ IF bots[name] # NoBot
                THEN /\ loc' = [loc EXCEPT ![t].name = name]
                     /\ pc' = [pc EXCEPT ![t] = "done"]
                     /\ result' = [result EXCEPT ![t] =
                                     Response(400, "bot already exists", <<>>)]
                     /\ UNCHANGED bots_lock
                ELSE /\ loc' = [loc EXCEPT ![t].name = name, ![t].cfg =
                                 BotConfig(name, req[t].persona, req[t].max_length)]
                     /\ Goto(t, "create_insert")
                     /\ bots_lock' = t
    /\ UNCHANGED << bots, heap, agent_lock, local_file, memory_cfg,
                    memory_hist, req, served, chat_log >>
    /\ Touch(t)

\* BotInstance._load_model: self.pipeline is the loaded pipeline (TRUE), or
\* None (FALSE) when pipeline(...) raised.
LoadModelOutcomes == BOOLEAN

\* Mutant of InsertBot: no inst.history = load_local_history(name); the new
\* agent starts with the empty history of __init__.
InsertBotUnseeded(t, key, next, done) ==
    /\ \E bound \in LoadModelOutcomes :
            heap' = Append(heap, [cfg |-> loc[t].cfg, pipeline |-> bound,
                                  history |-> <<>>])
    /\ agent_lock' = Append(agent_lock, NoThread)
    /\ chat_log' = Append(chat_log, [seed |-> <<>>, calls |-> <<>>])
    /\ bots' = [bots EXCEPT ![key] = Len(heap) + 1]
    /\ IF next = "done" THEN Finish(t, done) ELSE Step(t, next)
    /\ bots_lock' = NoThread
    /\ UNCHANGED << local_file, memory_cfg, memory_hist, req, served >>
    /\ Touch(t)

\* inst = BotInstance(cfg); inst.history = load_local_history(name);
\* bots[name] = inst; the with block ends.  json.load raising leaves the
\* handler with the lock released and nothing inserted.
InsertBot(t, key, next, done) ==
    /\ LET seed == load_local_history(key) IN
        IF seed.raised
        THEN /\ Finish(t, Response(500, "history file unreadable", <<>>))
             /\ UNCHANGED << bots, heap, agent_lock, chat_log >>
        ELSE /\ \E bound \in LoadModelOutcomes :
                    heap' = Append(heap, [cfg |-> loc[t].cfg, pipeline |-> bound,
                                          history |-> seed.history])
             /\ agent_lock' = Append(agent_lock, NoThread)
             /\ chat_log' = Append(chat_log, [seed |-> seed.history, calls |-> <<>>])
             /\ bots' = [bots EXCEPT ![key] = Len(heap) + 1]
             /\ IF next = "done" THEN Finish(t, done) ELSE Step(t, next)
    /\ bots_lock' = NoThread
    /\ UNCHANGED << local_file, memory_cfg, memory_hist, req, served >>
    /\ Touch(t)

create_insert(t) ==
    /\ At(t, "create_insert")
    /\ InsertBot(t, loc[t].name, "create_save", NoResponse)

\* Mutant of save_bot_to_memory: a failed upload takes the bot out of the
\* registry again.
save_bot_to_memory_rollback(t) ==
    /\ At(t, "create_save")
    /\ \E ok \in BOOLEAN :
        /\ memory_cfg' = IF ok
                         THEN [memory_cfg EXCEPT ![loc[t].name] = CfgBlob(loc[t].cfg)]
                         ELSE memory_cfg
        /\ bots' = IF ok THEN bots ELSE [bots EXCEPT ![loc[t].name] = NoBot]
        /\ Finish(t, Response(200, "created", ok))
    /\ UNCHANGED << heap, agent_lock, bots_lock, local_file,
                    memory_hist, req, served, chat_log >>
    /\ Touch(t)

\* ok, resp = save_bot_to_memory(cfg): the server stores the blob and answers
\* 2xx, or the blob does not arrive (r.ok is false, or requests raised and
\* the except clause returned False).  Never raises.  The handler returns
\* {"created": name, "saved_to_memory": ok, ...}.
save_bot_to_memory(t) ==
    /\ At(t, "create_save")
    /\ \E ok \in BOOLEAN :
        /\ memory_cfg' = IF ok
                         THEN [memory_cfg EXCEPT ![loc[t].name] = CfgBlob(loc[t].cfg)]
                         ELSE memory_cfg
        /\ Finish(t, Response(200, "created", ok))
    /\ UNCHANGED << bots, heap, agent_lock, bots_lock, local_file,
                    memory_hist, req, served, chat_log >>
    /\ Touch(t)

(* ----------------------------- deploy_bot ----------------------------- *)

\* Mutant of deploy_bot: no `if name in bots`; every deploy fetches.
deploy_bot_unchecked(t) ==
    /\ At(t, "deploy_bot")
    /\ RegistryLockFree
    /\ loc' = [loc EXCEPT ![t].name = req[t].name]
    /\ Goto(t, "deploy_fetch")
    /\ bots_lock' = t
    /\ UNCHANGED << bots, heap, agent_lock, local_file, memory_cfg,
                    memory_hist, req, served, chat_log >>
    /\ Touch(t)

\* with bots_lock: if name in bots: return {"status": "already_deployed"}.
\* The form field `name` is used as it came.  For a new name the thread
\* goes on, holding bots_lock, to load_bot_from_memory.
deploy_bot(t) ==
    /\ At(t, "deploy_bot")
    /\ RegistryLockFree
    /\ loc' = [loc EXCEPT ![t].name = req[t].name]
    /\ IF bots[req[t].name] # NoBot
       THEN /\ pc' = [pc EXCEPT ![t] = "done"]
            /\ result' = [result EXCEPT ![t] =
                            Response(200, "already_deployed", <<>>)]
            /\ UNCHANGED bots_lock
       ELSE /\ Goto(t, "deploy_fetch")
            /\ bots_lock' = t
    /\ UNCHANGED << bots, heap, agent_lock, local_file, memory_cfg,
                    memory_hist, req, served, chat_log >>
    /\ Touch(t)

\* The path of the URL f"{MEMORY_URL}/ml/load/{filename}" as requests sends
\* it: the text is put into the URL as it is, so the path ends before the
\* first "?" or "#" (what follows is the query or the fragment).
RECURSIVE url_path(_)
url_path(filename) ==
    IF filename = <<>> \/ Head(filename) \in {"?", "#"} THEN <<>>
    ELSE << Head(filename) >> \o url_path(Tail(filename))

\* What the memory server holds under a file name: the config saved as
\* <name>.bot.json, or nothing.
ServedBlob(path) ==
    IF /\ path # <<>>
       /\ path[Len(path)] = BotJson
       /\ SubSeq(path, 1, Len(path) - 1) \in RawNames
    THEN memory_cfg[SubSeq(path, 1, Len(path) - 1)]
    ELSE NoBlob

\* load_bot_from_memory(name): (None, err) when requests.get or json.loads
\* raises (server unreachable, timeout, a body that is not JSON) or the
\* server answers another status than 200, as it does without the blob;
\* else (cfg_data, None) with the JSON value of the body.  The server is
\* shared with other clients: the body it sends for a key need not be a
\* config this process saved.
load_bot_from_memory(name) ==
    LET blob == ServedBlob(url_path(name \o << BotJson >>)) IN
    { [cfg_data |-> NoBlob, err |-> "unreachable"] }
    \cup
    ( IF blob.kind = "none"
      THEN { [cfg_data |-> NoBlob, err |-> "memory returned 404"] }
      ELSE { [cfg_data |-> b, err |-> ""] : b \in {blob, FalsyBlob, BadShapeBlob} } )

\* Mutant of Truthy: no `if cfg_data:`; whatever came back is used.
TruthyAlways(cfg_data) == TRUE

\* `if cfg_data:` in deploy_bot.
Truthy(cfg_data) == cfg_data.kind \in {"cfg", "badshape"}

\* cfg_data, err = load_bot_from_memory(name); cfg = BotConfig(**cfg_data)
\* or raise HTTPException(404).  BotConfig raising is a 500.  Either way
\* the exception leaves the with block, which releases bots_lock.
deploy_fetch(t) ==
    /\ At(t, "deploy_fetch")
    /\ \E r \in load_bot_from_memory(loc[t].name) :
        /\ loc' = [loc EXCEPT ![t].cfg_data = r.cfg_data, ![t].err = r.err,
                              ![t].cfg = r.cfg_data.cfg]
        /\ IF ~Truthy(r.cfg_data)
           THEN /\ bots_lock' = NoThread
                /\ pc' = [pc EXCEPT ![t] = "done"]
                /\ result' = [result EXCEPT ![t] =
                        Response(404, "bot config not found in memory", r.err)]
           ELSE IF r.cfg_data.kind = "badshape"
           THEN /\ bots_lock' = NoThread
                /\ pc' = [pc EXCEPT ![t] = "done"]
                /\ result' = [result EXCEPT ![t] =
                        Response(500, "invalid config", <<>>)]
           ELSE /\ Goto(t, "deploy_insert")
                /\ UNCHANGED bots_lock
    /\ UNCHANGED << bots, heap, agent_lock, local_file, memory_cfg,
                    memory_hist, req, served, chat_log >>
    /\ Touch(t)

\* inst = BotInstance(cfg); inst.history = load_local_history(name);
\* bots[name] = inst; return {"deployed": name}
deploy_insert(t) ==
    /\ At(t, "deploy_insert")
    /\ InsertBot(t, loc[t].name, "done", Response(200, "deployed", <<>>))

(* ------------------------- list_bots, health -------------------------- *)

\* with bots_lock: return {"bots": list(bots.keys())}
list_bots(t) ==
    /\ At(t, "list_bots")
    /\ RegistryLockFree
    /\ Finish(t, Response(200, "bots", Keys))
    /\ UNCHANGED << bots, heap, agent_lock, bots_lock, local_file, memory_cfg,
                    memory_hist, req, served, chat_log >>
    /\ Touch(t)

\* health reads bots without taking bots_lock.
health(t) ==
    /\ At(t, "health")
    /\ Finish(t, Response(200, "ok", Keys))
    /\ UNCHANGED << bots, heap, agent_lock, bots_lock, local_file, memory_cfg,
                    memory_hist, req, served, chat_log >>
    /\ Touch(t)

(* ---------------------------- bot_history ----------------------------- *)

\* BotInstance.get_history: list(self.history), taken without self.lock.
get_history(i) == heap[i].history

\* with bots_lock: inst = bots.get(name); 404 without one, else
\* return {"history": inst.get_history()}
bot_history(t) ==
    /\ At(t, "bot_history")
    /\ RegistryLockFree
    /\ LET inst == bots[req[t].name] IN
        IF inst = NoBot
        THEN Finish(t, Response(404, "bot not deployed", <<>>))
        ELSE Finish(t, Response(200, "history", get_history(inst)))
    /\ UNCHANGED << bots, heap, agent_lock, bots_lock, local_file, memory_cfg,
                    memory_hist, req, served, chat_log >>
    /\ Touch(t)

(* ------------------------------ bot_chat ------------------------------ *)

\* msg = body.get("message"); if not msg: raise HTTPException(400).  Then
\* with bots_lock: inst = bots.get(name); if not inst: raise
\* HTTPException(404).  The lock is released when the with block is left.
bot_chat(t) ==
    /\ At(t, "bot_chat")
    /\ IF MessageMissing(req[t].message)
       THEN Finish(t, Response(400, "message required", <<>>))
       ELSE /\ RegistryLockFree
            /\ LET inst == bots[req[t].name] IN
                IF inst = NoBot
                THEN Finish(t, Response(404, "bot not deployed", <<>>))
                ELSE /\ loc' = [loc EXCEPT ![t].inst = inst, ![t].name = req[t].name]
                     /\ Goto(t, "chat_enter")
    /\ UNCHANGED << bots, heap, agent_lock, bots_lock, local_file, memory_cfg,
                    memory_hist, req, served, chat_log >>
    /\ Touch(t)

\* Mutant of chat_enter: self.history = [user entry], which drops what the
\* history held.
chat_enter_fresh(t) ==
    /\ At(t, "chat_enter")
    /\ LET i == loc[t].inst IN
        /\ AgentLockFree(i)
        /\ agent_lock' = [agent_lock EXCEPT ![i] = t]
        /\ heap' = [heap EXCEPT ![i].history =
                        << Entry("user", req[t].message.text, loc[t].call) >>]
    /\ Step(t, "chat_generate")
    /\ UNCHANGED << bots, bots_lock, local_file, memory_cfg, memory_hist,
                    req, served, chat_log >>
    /\ Touch(t)

\* BotInstance.chat: with self.lock: self.history.append(user entry)
chat_enter(t) ==
    /\ At(t, "chat_enter")
    /\ LET i == loc[t].inst IN
        /\ AgentLockFree(i)
        /\ agent_lock' = [agent_lock EXCEPT ![i] = t]
        /\ heap' = [heap EXCEPT ![i].history =
                        Append(@, Entry("user", req[t].message.text, loc[t].call))]
    /\ Step(t, "chat_generate")
    /\ UNCHANGED << bots, bots_lock, local_file, memory_cfg, memory_hist,
                    req, served, chat_log >>
    /\ Touch(t)

\* Mutant of Generate: no `if not self.pipeline`; calling None raises.
GenerateUnguarded(inst) ==
    IF ~inst.pipeline
    THEN { [raised |-> TRUE, reply |-> ""] }
    ELSE { [raised |-> FALSE, reply |-> g] : g \in GeneratedTexts }
         \cup { [raised |-> TRUE, reply |-> ""] }

\* What the rest of the with block computes: the fallback text without a
\* pipeline; with one, the stripped text the pipeline returns, or the
\* exception the pipeline call raises.
Generate(inst) ==
    IF ~inst.pipeline
    THEN { [raised |-> FALSE, reply |-> Fallback] }
    ELSE { [raised |-> FALSE, reply |-> g] : g \in GeneratedTexts }
         \cup { [raised |-> TRUE, reply |-> ""] }

\* Mutant of chat_generate: the lock is taken with acquire() and released
\* only behind the append of the reply, so a raising pipeline call leaves it
\* held.
chat_generate_leak(t) ==
    /\ At(t, "chat_generate")
    /\ LET i == loc[t].inst IN
       \E out \in Generate(heap[i]) :
        /\ chat_log' = [chat_log EXCEPT ![i].calls =
                Append(@, [call |-> loc[t].call, prompt |-> req[t].message.text,
                           returned |-> ~out.raised, reply |-> out.reply,
                           stored |-> ~out.raised])]
        /\ IF out.raised
           THEN /\ Finish(t, Response(500, "generation raised", <<>>))
                /\ UNCHANGED << heap, agent_lock >>
           ELSE /\ agent_lock' = [agent_lock EXCEPT ![i] = NoThread]
                /\ heap' = [heap EXCEPT ![i].history =
                                Append(@, Entry("bot", out.reply, loc[t].call))]
                /\ loc' = [loc EXCEPT ![t].reply = out.reply]
                /\ Goto(t, "persist_snapshot")
    /\ UNCHANGED << bots, bots_lock, local_file, memory_cfg, memory_hist,
                    req, served >>
    /\ Touch(t)

\* The reply is appended and returned; an exception leaves the with block
\* (releasing self.lock) and bot_chat, which has no handler for it.
chat_generate(t) ==
    /\ At(t, "chat_generate")
    /\ LET i == loc[t].inst IN
       \E out \in Generate(heap[i]) :
        /\ agent_lock' = [agent_lock EXCEPT ![i] = NoThread]
        /\ chat_log' = [chat_log EXCEPT ![i].calls =
                Append(@, [call |-> loc[t].call, prompt |-> req[t].message.text,
                           returned |-> ~out.raised, reply |-> out.reply,
                           stored |-> ~out.raised])]
        /\ IF out.raised
           THEN /\ Finish(t, Response(500, "generation raised", <<>>))
                /\ UNCHANGED heap
           ELSE /\ heap' = [heap EXCEPT ![i].history =
                                Append(@, Entry("bot", out.reply, loc[t].call))]
                /\ loc' = [loc EXCEPT ![t].reply = out.reply]
                /\ Goto(t, "persist_snapshot")
    /\ UNCHANGED << bots, bots_lock, local_file, memory_cfg, memory_hist,
                    req, served >>
    /\ Touch(t)

\* The argument inst.get_history() of persist_local_history(name, ...).
persist_snapshot(t) ==
    /\ At(t, "persist_snapshot")
    /\ loc' = [loc EXCEPT ![t].snap = get_history(loc[t].inst)]
    /\ Goto(t, "persist_open")
    /\ UNCHANGED << bots, heap, agent_lock, bots_lock, local_file, memory_cfg,
                    memory_hist, req, served, chat_log >>
    /\ Touch(t)

\* persist_local_history: open(path, "w") truncates the file, or raises
\* OSError, which bot_chat does not handle.  (chat_log notes that the
\* request of this call did not store the history.)
persist_open(t) ==
    /\ At(t, "persist_open")
    /\ \/ /\ local_file' = [local_file EXCEPT ![loc[t].name] = FileEmpty]
          /\ Step(t, "persist_write")
          /\ UNCHANGED chat_log
       \/ /\ Finish(t, Response(500, "history write failed", <<>>))
          /\ chat_log' = [chat_log EXCEPT ![loc[t].inst].calls =
                [j \in DOMAIN @ |->
                    IF @[j].call = loc[t].call
                    THEN [@[j] EXCEPT !.stored = FALSE] ELSE @[j]]]
          /\ UNCHANGED local_file
    /\ UNCHANGED << bots, heap, agent_lock, bots_lock, memory_cfg,
                    memory_hist, req, served >>
    /\ Touch(t)

\* json.dump(history, f, indent=2) and the close of the file.
persist_write(t) ==
    /\ At(t, "persist_write")
    /\ \E f \in WriteOutcomes(local_file[loc[t].name], loc[t].snap, TRUE) :
        local_file' = [local_file EXCEPT ![loc[t].name] = f]
    /\ Step(t, "push_open")
    /\ UNCHANGED << bots, heap, agent_lock, bots_lock, memory_cfg,
                    memory_hist, req, served, chat_log >>
    /\ Touch(t)

\* try: with open(hist_file, "w") as f: ...   except Exception: pass
push_open(t) ==
    /\ At(t, "push_open")
    /\ \/ /\ local_file' = [local_file EXCEPT ![loc[t].name] = FileEmpty]
          /\ Step(t, "push_snapshot")
       \/ /\ Finish(t, Response(200, "reply", loc[t].reply))
          /\ UNCHANGED local_file
    /\ UNCHANGED << bots, heap, agent_lock, bots_lock, memory_cfg,
                    memory_hist, req, served, chat_log >>
    /\ Touch(t)

\* The argument inst.get_history() of json.dump, evaluated with the file open.
push_snapshot(t) ==
    /\ At(t, "push_snapshot")
    /\ loc' = [loc EXCEPT ![t].snap = get_history(loc[t].inst)]
    /\ Goto(t, "push_write")
    /\ UNCHANGED << bots, heap, agent_lock, bots_lock, local_file, memory_cfg,
                    memory_hist, req, served, chat_log >>
    /\ Touch(t)

\* json.dump(inst.get_history(), f) and the close of the file.
push_write(t) ==
    /\ At(t, "push_write")
    /\ \E f \in WriteOutcomes(local_file[loc[t].name], loc[t].snap, FALSE) :
        local_file' = [local_file EXCEPT ![loc[t].name] = f]
    /\ Step(t, "push_upload")
    /\ UNCHANGED << bots, heap, agent_lock, bots_lock, memory_cfg,
                    memory_hist, req, served, chat_log >>
    /\ Touch(t)

\* requests.post(.../ml/save, files=open(hist_file, "rb")): the bytes now in
\* the file reach the server, or the call raises and the except clause
\* swallows it.  return {"reply": reply}
push_upload(t) ==
    /\ At(t, "push_upload")
    /\ \/ memory_hist' = [memory_hist EXCEPT ![loc[t].name] = local_file[loc[t].name]]
       \/ UNCHANGED memory_hist
    /\ Finish(t, Response(200, "reply", loc[t].reply))
    /\ UNCHANGED << bots, heap, agent_lock, bots_lock, local_file, memory_cfg,
                    req, served, chat_log >>
    /\ Touch(t)

(* --------------------------- specification ---------------------------- *)

Next ==
    \E t \in Threads :
        \/ Start(t)
        \/ Respond(t)
        \/ create_bot(t)
        \/ create_insert(t)
        \/ save_bot_to_memory(t)
        \/ deploy_bot(t)
        \/ deploy_fetch(t)
        \/ deploy_insert(t)
        \/ list_bots(t)
        \/ health(t)
        \/ bot_history(t)
        \/ bot_chat(t)
        \/ chat_enter(t)
        \/ chat_generate(t)
        \/ persist_snapshot(t)
        \/ persist_open(t)
        \/ persist_write(t)
        \/ push_open(t)
        \/ push_snapshot(t)
        \/ push_write(t)
        \/ push_upload(t)

Spec == Init /\ [][Next]_vars

(* ------------------------- fair scheduling ---------------------------- *)

\* The steps of the handler thread t runs, up to the response.
Handler(t) ==
    \/ Respond(t)
    \/ create_bot(t)
    \/ create_insert(t)
    \/ save_bot_to_memory(t)
    \/ deploy_bot(t)
    \/ deploy_fetch(t)
    \/ deploy_insert(t)
    \/ list_bots(t)
    \/ health(t)
    \/ bot_history(t)
    \/ bot_chat(t)
    \/ chat_enter(t)
    \/ chat_generate(t)
    \/ persist_snapshot(t)
    \/ persist_open(t)
    \/ persist_write(t)
    \/ push_open(t)
    \/ push_snapshot(t)
    \/ push_write(t)
    \/ push_upload(t)

\* The process at its start, with a history file json.load rejects under
\* DATA_DIR and a config for "b" on the memory server: every way out of
\* every critical section can be taken from here.
FairInit ==
    /\ bots = [n \in RawNames |-> NoBot]
    /\ heap = <<>>
    /\ agent_lock = <<>>
    /\ bots_lock = NoThread
    /\ local_file = [n \in RawNames |-> IF n = <<"a">> THEN FileGarbled ELSE FileAbsent]
    /\ memory_cfg = [n \in RawNames |->
                        IF n = <<"b">>
                        THEN CfgBlob(BotConfig(<<"b">>, "You are terse.", 64))
                        ELSE NoBlob]
    /\ memory_hist = [n \in RawNames |-> FileAbsent]
    /\ pc = [t \in Threads |-> "idle"]
    /\ req = [t \in Threads |-> NoRequest]
    /\ loc = [t \in Threads |-> NoLocals]
    /\ result = [t \in Threads |-> NoResponse]
    /\ served = 0
    /\ touched = [t \in Threads |-> FALSE]
    /\ chat_log = <<>>

\* Every thread that can run is run in the end (the interpreter switches
\* threads), and the calls to the pipeline, the file system and the memory
\* server return or raise.  Nothing obliges a client to send a request.
FairSpec ==
    /\ FairInit
    /\ [][Next]_vars
    /\ \A t \in Threads : WF_vars(Handler(t))

(* ------------------- local persistence on its own --------------------- *)

\* Mutant of persist_local_history: the file is opened with "a", so the new
\* text lands behind what the file holds.
persist_local_history_append(name, history) ==
    LET cur == local_file[name] IN
    { [local_file EXCEPT ![name] =
         IF cur.kind = "json"
         THEN [kind |-> "json", data |-> cur.data \o json_dump(history),
               indent |-> TRUE]
         ELSE IF cur.kind = "garbled" THEN FileGarbled
         ELSE FileJsonFmt(history, TRUE)] }

\* persist_local_history(name, history) with no other writer of the file
\* between its open and its close: the files afterwards.
persist_local_history(name, history) ==
    { [local_file EXCEPT ![name] = f] :
        f \in WriteOutcomes(FileEmpty, history, TRUE) }

\* The entries a history is made of, and the histories of up to MaxHistory
\* entries.
HistoryEntries ==
    { Entry("user", "hi", 0), Entry("bot", "Hello.", 0), Entry("bot", Fallback, 0) }

Histories == UNION { [1..n -> HistoryEntries] : n \in 0..MaxHistory }

\* One caller, with a name and a history, about to save and load, or to load
\* only; the file of the name is absent or holds what an earlier call or a
\* crash left.
PersistenceInit ==
    /\ bots = [n \in RawNames |-> NoBot]
    /\ heap = <<>>
    /\ agent_lock = <<>>
    /\ bots_lock = NoThread
    /\ \E n \in RawNames, h \in Histories, o \in {"save_history", "load_history"} :
          /\ \E f \in { FileAbsent, FileGarbled, FileJsonFmt(OldHistory, TRUE),
                         FileJsonFmt(OldHistory, FALSE) } :
                local_file = [m \in RawNames |-> IF m = n THEN f ELSE FileAbsent]
          /\ req = [t \in Threads |->
                      IF t = 1 THEN [NoRequest EXCEPT !.op = o, !.name = n]
                      ELSE NoRequest]
          /\ loc = [t \in Threads |->
                      IF t = 1 THEN [NoLocals EXCEPT !.name = n, !.snap = h]
                      ELSE NoLocals]
          /\ pc = [t \in Threads |-> IF t = 1 THEN o ELSE "idle"]
    /\ memory_cfg = [n \in RawNames |-> NoBlob]
    /\ memory_hist = [n \in RawNames |-> FileAbsent]
    /\ result = [t \in Threads |-> NoResponse]
    /\ served = 0
    /\ touched = [t \in Threads |-> FALSE]
    /\ chat_log = <<>>

\* persist_local_history(name, history) is called: it returns, or open
\* raises OSError.
SaveHistory(t) ==
    /\ pc[t] = "save_history"
    /\ \/ /\ local_file' \in persist_local_history(loc[t].name, loc[t].snap)
          /\ Step(t, "load_history")
       \/ /\ Finish(t, Response(500, "history write failed", <<>>))
          /\ UNCHANGED local_file
    /\ UNCHANGED << bots, heap, agent_lock, bots_lock, memory_cfg,
                    memory_hist, req, served, chat_log >>
    /\ Touch(t)

\* load_local_history(name) is called: it returns a list or raises.
LoadHistory(t) ==
    /\ pc[t] = "load_history"
    /\ LET r == load_local_history(loc[t].name) IN
        IF r.raised
        THEN Finish(t, Response(500, "history file unreadable", <<>>))
        ELSE Finish(t, Response(200, "loaded", r.history))
    /\ UNCHANGED << bots, heap, agent_lock, bots_lock, local_file, memory_cfg,
                    memory_hist, req, served, chat_log >>
    /\ Touch(t)

PersistenceNext ==
    \E t \in Threads :
        \/ SaveHistory(t)
        \/ LoadHistory(t)

PersistenceSpec == PersistenceInit /\ [][PersistenceNext]_vars

(* ------------------------ a process in service ------------------------ *)

\* The process some time after its start: create_bot(name="a") has been
\* served and its config saved, no chat has happened yet, and the memory
\* server holds a config for "b".  `served` counts the requests from here.
ServingInit ==
    /\ bots = [n \in RawNames |-> IF n = <<"a">> THEN 1 ELSE NoBot]
    /\ \E bound \in LoadModelOutcomes :
          heap = << [cfg |-> BotConfig(<<"a">>, DefaultPersona, DefaultMaxLength),
                     pipeline |-> bound, history |-> <<>>] >>
    /\ agent_lock = << NoThread >>
    /\ bots_lock = NoThread
    /\ local_file = [n \in RawNames |-> FileAbsent]
    /\ memory_cfg =
          [n \in RawNames |->
              IF n = <<"a">>
              THEN CfgBlob(BotConfig(<<"a">>, DefaultPersona, DefaultMaxLength))
              ELSE IF n = <<"b">>
              THEN CfgBlob(BotConfig(<<"b">>, "You are terse.", 64))
              ELSE NoBlob]
    /\ memory_hist = [n \in RawNames |-> FileAbsent]
    /\ pc = [t \in Threads |-> "idle"]
    /\ req = [t \in Threads |-> NoRequest]
    /\ loc = [t \in Threads |-> NoLocals]
    /\ result = [t \in Threads |-> NoResponse]
    /\ served = 0
    /\ touched = [t \in Threads |-> FALSE]
    /\ chat_log = << [seed |-> <<>>, calls |-> <<>>] >>

ServingSpec == ServingInit /\ [][Next]_vars

(* ------------------------------- claims ------------------------------- *)

\* Thread t takes a step of its handler.
Moves(t) == pc'[t] # pc[t]

\* The registry and the objects are as they were.
RegistrySame == bots' = bots /\ heap' = heap

\* C1: at most one agent per name.  A key that maps to an object keeps that
\* object for ever; an object enters the registry under exactly one key that
\* was free, one object per step; and a create for a name that is already
\* registered when it takes bots_lock ends with "bot already exists".
C1_AtMostOneAgentPerName ==
    [][ /\ \A n \in RawNames : bots[n] # NoBot => bots'[n] = bots[n]
        /\ Len(heap') # Len(heap) =>
              /\ Len(heap') = Len(heap) + 1
              /\ \E n \in RawNames :
                    /\ bots[n] = NoBot
                    /\ bots'[n] = Len(heap')
                    /\ \A m \in RawNames \ {n} : bots'[m] = bots[m]
        /\ \A t \in Threads :
              ( /\ pc[t] = "create_bot"
                /\ Moves(t)
                /\ strip(req[t].name) # <<>>
                /\ bots[strip(req[t].name)] # NoBot )
              => ( /\ pc'[t] = "done"
                   /\ result'[t].code = 400
                   /\ result'[t].tag = "bot already exists" )
      ]_vars

\* C1 witness: two creates for one name ran together; one inserted the agent
\* and is uploading its config, the other was refused.
C1_Witness ==
    \E t, u \in Threads :
        /\ t # u
        /\ pc[t] = "done"
        /\ req[t].op = "create_bot"
        /\ result[t].tag = "bot already exists"
        /\ pc[u] = "create_save"
        /\ loc[u].name = loc[t].name
        /\ bots[loc[u].name] # NoBot

\* The entries chat() calls appended to object i: those after the seed.
Appended(i) ==
    SubSeq(heap[i].history, Len(chat_log[i].seed) + 1, Len(heap[i].history))

\* The thread that runs request number c.
Runs(t, c) == pc[t] \notin {"idle", "done"} /\ loc[t].call = c

\* C2: the entries chat() appended form adjacent pairs: a user entry is
\* followed at once by the bot entry of the same call, carrying the reply that
\* call returned, and a bot entry follows the user entry of its call.  (The
\* user entry of the turn that holds the object's lock right now is the one
\* entry still waiting for its reply.)
C2_ChatPairsAdjacent ==
    \A i \in 1..Len(heap) :
        LET h == Appended(i) IN
        \A k \in 1..Len(h) :
            IF h[k].role = "user"
            THEN \/ /\ k = Len(h)
                    /\ agent_lock[i] # NoThread
                    /\ Runs(agent_lock[i], h[k].call)
                 \/ /\ k < Len(h)
                    /\ h[k + 1].role = "bot"
                    /\ h[k + 1].call = h[k].call
                    /\ \E j \in 1..Len(chat_log[i].calls) :
                          LET c == chat_log[i].calls[j] IN
                          /\ c.call = h[k].call
                          /\ c.returned
                          /\ c.reply = h[k + 1].text
            ELSE /\ k > 1
                 /\ h[k - 1].role = "user"
                 /\ h[k - 1].call = h[k].call

\* The entries N finished calls leave: prompt and reply of each, in order.
RECURSIVE Turns(_)
Turns(calls) ==
    IF calls = <<>> THEN <<>>
    ELSE LET c == calls[Len(calls)] IN
         Turns(SubSeq(calls, 1, Len(calls) - 1))
            \o << Entry("user", c.prompt, c.call), Entry("bot", c.reply, c.call) >>

\* C3: after N chat calls on a bot, one after the other, get_history returns
\* exactly 2N entries in call order: entry 2i-1 the prompt of call i and
\* entry 2i the reply of call i.  Stated for a bot that started with an empty
\* history, and for the moments between two turns.
C3_HistoryIsTwoPerCall ==
    \A i \in 1..Len(heap) :
        (chat_log[i].seed = <<>> /\ agent_lock[i] = NoThread)
        => /\ Len(get_history(i)) = 2 * Len(chat_log[i].calls)
           /\ get_history(i) = Turns(chat_log[i].calls)

\* C4: a rejected request leaves the registry, every agent's config and
\* history, the history files and the memory server as they were: a create
\* with an empty name, a create of a registered name, a chat without a
\* message, and a chat or history request for a name that is not registered.
C4_RejectedLeavesState ==
    \A t \in Threads :
        pc[t] = "done" =>
            /\ (req[t].op = "create_bot" /\ strip(req[t].name) = <<>>)
                  => (result[t].code = 400 /\ result[t].tag = "name required"
                      /\ ~touched[t])
            /\ (req[t].op = "bot_chat"
                /\ (~req[t].message.present \/ req[t].message.text = ""))
                  => (result[t].code = 400 /\ result[t].tag = "message required"
                      /\ ~touched[t])
            /\ result[t].tag \in {"bot already exists", "bot not deployed"}
                  => (result[t].code \in {400, 404} /\ ~touched[t])

\* C4 witness: a create of a name that is registered, with another persona
\* than the agent's, was refused.
C4_Witness ==
    \E t \in Threads :
        /\ pc[t] = "done"
        /\ req[t].op = "create_bot"
        /\ result[t].tag = "bot already exists"
        /\ bots[loc[t].name] # NoBot
        /\ heap[bots[loc[t].name]].cfg.persona # req[t].persona

\* C5: deploy of a registered name answers "already_deployed" with status
\* 200 in the step that takes bots_lock, and leaves the registry, the
\* agent's identity, config and history, the files and the lock as they were.
C5_DeployIdempotent ==
    [][ \A t \in Threads :
          (pc[t] = "deploy_bot" /\ Moves(t) /\ bots[req[t].name] # NoBot)
          => ( /\ pc'[t] = "done"
               /\ result'[t].code = 200
               /\ result'[t].tag = "already_deployed"
               /\ RegistrySame
               /\ local_file' = local_file
               /\ memory_cfg' = memory_cfg
               /\ bots_lock' = bots_lock )
      ]_vars

\* C5 witness: deploy of a registered bot that already holds a conversation.
C5_Witness ==
    \E t \in Threads :
        /\ pc[t] = "done"
        /\ req[t].op = "deploy_bot"
        /\ result[t].tag = "already_deployed"
        /\ bots[req[t].name] # NoBot
        /\ Appended(bots[req[t].name]) # <<>>

\* C6: without a pipeline, chat() returns the fallback string: the step that
\* ends the turn appends a bot entry carrying the fallback right after the
\* user entry of the call, and the call returns (it does not raise).
C6_FallbackWithoutPipeline ==
    [][ \A t \in Threads :
          (pc[t] = "chat_generate" /\ Moves(t) /\ ~heap[loc[t].inst].pipeline)
          => LET i == loc[t].inst
                 h == heap[i].history
             IN  /\ pc'[t] = "persist_snapshot"
                 /\ loc'[t].reply = Fallback
                 /\ h[Len(h)] = Entry("user", req[t].message.text, loc[t].call)
                 /\ heap'[i].history = Append(h, Entry("bot", Fallback, loc[t].call))
      ]_vars

\* C6 witness: chat() on a bot without a pipeline has returned.
C6_Witness ==
    \E t \in Threads :
        /\ pc[t] = "persist_snapshot"
        /\ ~heap[loc[t].inst].pipeline
        /\ loc[t].reply = Fallback
        /\ Len(get_history(loc[t].inst)) >= 2

\* C7: a pipeline call that raises is caught inside chat(): no chat() call
\* ends without a reply, and no chat request ends with the exception.
C7_GenerationFailureCaught ==
    /\ \A i \in 1..Len(heap) :
          \A j \in 1..Len(chat_log[i].calls) : chat_log[i].calls[j].returned
    /\ \A t \in Threads :
          (pc[t] = "done" /\ req[t].op = "bot_chat")
          => result[t].tag # "generation raised"

\* The chat() call of thread t's request returned a reply.
ChatReturned(t) ==
    /\ loc[t].inst # NoBot
    /\ \E j \in 1..Len(chat_log[loc[t].inst].calls) :
          LET c == chat_log[loc[t].inst].calls[j] IN
          c.call = loc[t].call /\ c.returned

\* C8: a chat request whose chat() call returned a reply answers 200 with
\* that reply, whatever happens to the history file and the upload.
C8_ChatSurvivesPersistence ==
    \A t \in Threads :
        (pc[t] = "done" /\ req[t].op = "bot_chat" /\ ChatReturned(t))
        => ( /\ result[t].code = 200
             /\ result[t].tag = "reply"
             /\ result[t].val = loc[t].reply )

\* C9: create succeeds locally whatever the memory server does: the step
\* that uploads the config answers 200 "created", reports the upload in
\* saved_to_memory, and leaves the new agent registered under its name with
\* the config of the request.
C9_CreateKeepsAgent ==
    [][ \A t \in Threads :
          (pc[t] = "create_save" /\ Moves(t))
          => ( /\ pc'[t] = "done"
               /\ result'[t].code = 200
               /\ result'[t].tag = "created"
               /\ result'[t].val \in BOOLEAN
               /\ result'[t].val => memory_cfg'[loc[t].name] = CfgBlob(loc[t].cfg)
               /\ ~result'[t].val => memory_cfg' = memory_cfg
               /\ bots'[loc[t].name] # NoBot
               /\ bots'[loc[t].name] = bots[loc[t].name]
               /\ heap'[bots'[loc[t].name]].cfg =
                     BotConfig(strip(req[t].name), req[t].persona, req[t].max_length)
               /\ RegistrySame )
      ]_vars

\* C9 witness: a create whose upload failed has answered, and its agent is
\* in the registry.
C9_Witness ==
    \E t \in Threads :
        /\ pc[t] = "done"
        /\ req[t].op = "create_bot"
        /\ result[t].tag = "created"
        /\ result[t].val = FALSE
        /\ memory_cfg[loc[t].name] = NoBlob
        /\ bots[loc[t].name] # NoBot

C11_UploadAfterReturn ==
    [][ \A t \in Threads :
          (pc[t] = "push_upload" /\ Moves(t))
          => ( /\ \E k \in 1..Len(heap[loc[t].inst].history) :
                     heap[loc[t].inst].history[k] =
                        Entry("bot", loc[t].reply, loc[t].call)
               /\ result[t].code = 200
               /\ result[t].tag = "reply" )
      ]_vars

\* C12: local persistence round trip.  persist_local_history(name, h)
\* followed by load_local_history(name) returns the entries of h in the order
\* of h, whatever the file held before; and load_local_history of a name
\* without a file returns the empty list.
C12_HistoryRoundTrip ==
    \A t \in Threads :
        pc[t] = "done" =>
            /\ (req[t].op = "save_history"
                /\ result[t].tag # "history write failed")
                  => result[t] = Response(200, "loaded", Stored(loc[t].snap))
            /\ (req[t].op = "load_history"
                /\ local_file[loc[t].name].kind = "absent")
                  => result[t] = Response(200, "loaded", <<>>)

\* C12 witness: a history of two different entries was saved over a file that
\* held another history, and loaded back.
C12_Witness ==
    \E t \in Threads :
        /\ pc[t] = "done"
        /\ req[t].op = "save_history"
        /\ result[t].tag = "loaded"
        /\ Len(loc[t].snap) = 2
        /\ loc[t].snap[1] # loc[t].snap[2]
        /\ result[t].val = loc[t].snap
        /\ result[t].val # OldHistory

\* C13: bots_lock is held only for the membership check and the insert.
\* While a create or deploy of one name is about to load its model or to
\* fetch its config from the memory server, a chat, history or list request
\* for another, registered bot that has come to `with bots_lock:` finds the
\* lock free.
C13_RegistryLockOnlyForInsert ==
    \A t, u \in Threads :
        ( /\ t # u
          /\ pc[t] \in {"create_insert", "deploy_fetch"}
          /\ \/ pc[u] = "list_bots"
             \/ /\ pc[u] \in {"bot_chat", "bot_history"}
                /\ pc[u] = "bot_chat" => ~MessageMissing(req[u].message)
                /\ bots[req[u].name] # NoBot
                /\ req[u].name # loc[t].name )
        => RegistryLockFree

\* Thread t is inside `with self.lock:` of chat() on object i: its user
\* entry is appended, its reply is not yet.
InTurn(t, i) == pc[t] = "chat_generate" /\ loc[t].inst = i

\* C14: per-bot serialization with cross-bot independence.  The lock of an
\* object is held by exactly the thread that is between the user append and
\* the bot append on that object, so at most one chat call per bot is there;
\* a chat call holds neither bots_lock nor the lock of another object; and a
\* chat call that has come to `with self.lock:` of a bot no call is in turn
\* on finds that lock free, whatever turns are in progress on other bots.
C14_PerBotSerialization ==
    /\ \A i \in 1..Len(heap) :
          agent_lock[i] # NoThread => InTurn(agent_lock[i], i)
    /\ \A t \in Threads, i \in 1..Len(heap) :
          InTurn(t, i) => agent_lock[i] = t
    /\ \A t \in Threads :
          pc[t] \in {"chat_enter", "chat_generate"} => bots_lock # t
    /\ \A u \in Threads :
          ( /\ pc[u] = "chat_enter"
            /\ \A w \in Threads : ~InTurn(w, loc[u].inst) )
          => AgentLockFree(loc[u].inst)

\* C14 witness: two chat calls are in their turns at once, on two bots.
C14_Witness ==
    \E t, u \in Threads :
        /\ t # u
        /\ InTurn(t, loc[t].inst)
        /\ InTurn(u, loc[u].inst)
        /\ loc[t].inst # loc[u].inst
        /\ heap[loc[t].inst].cfg.name # heap[loc[u].inst].cfg.name

\* Entry k of h is a user entry without the bot reply of its call behind it.
Unanswered(h, k) ==
    /\ h[k].role = "user"
    /\ \/ k = Len(h)
       \/ h[k + 1].role # "bot"
       \/ h[k + 1].call # h[k].call

\* The snapshot thread t takes in this step: the argument of
\* persist_local_history, the argument of json.dump, or the list bot_history
\* returns; the empty list in any other step.
SnapshotTaken(t) ==
    IF pc[t] \in {"persist_snapshot", "push_snapshot"} THEN loc'[t].snap
    ELSE IF pc[t] = "bot_history" /\ result'[t].tag = "history" THEN result'[t].val
    ELSE <<>>

\* C15: a history snapshot taken for persistence or returned by get_history
\* never holds the user entry of a turn that is in progress when the snapshot
\* is taken (a user entry whose reply is still to be appended).
C15_SnapshotOutsideTurns ==
    [][ \A t \in Threads :
          Moves(t) =>
            \A k \in 1..Len(SnapshotTaken(t)) :
                Unanswered(SnapshotTaken(t), k)
                => ~ \E u \in Threads :
                        /\ pc[u] = "chat_generate"
                        /\ loc[u].call = SnapshotTaken(t)[k].call
      ]_vars

\* Thread u serves a chat request for the bot `name` that has not ended yet.
ChatPending(u, name) ==
    /\ pc[u] \notin {"idle", "done"}
    /\ req[u].op = "bot_chat"
    /\ req[u].name = name

\* C16: no lost update in local persistence.  When a chat request ends after
\* its last write of the history file, with no other chat request for the
\* bot under way, every chat() call on the bot having returned its reply and
\* no persist_local_history of a request for the bot having raised,
\* bots/<name>.history.json holds the agent's history as it is in memory.
C16_NoLostUpdate ==
    [][ \A t \in Threads :
          ( /\ pc[t] = "push_upload"
            /\ Moves(t)
            /\ \A u \in Threads \ {t} : ~ChatPending(u, req[t].name)
            /\ \A j \in 1..Len(chat_log[loc[t].inst].calls) :
                  /\ chat_log[loc[t].inst].calls[j].returned
                  /\ chat_log[loc[t].inst].calls[j].stored )
          => ( /\ local_file'[req[t].name].kind = "json"
               /\ load_local_history(req[t].name)' =
                     [raised |-> FALSE,
                      history |-> Stored(heap'[loc[t].inst].history)] )
      ]_vars

\* C17: history is append-only.  In every step every agent stays the agent it
\* was, and its history before the step is a prefix of its history after the
\* step: entries are never reordered, changed or deleted.
C17_HistoryAppendOnly ==
    [][ /\ Len(heap') >= Len(heap)
        /\ \A i \in 1..Len(heap) :
              /\ heap'[i].cfg = heap[i].cfg
              /\ Len(heap'[i].history) >= Len(heap[i].history)
              /\ SubSeq(heap'[i].history, 1, Len(heap[i].history)) = heap[i].history
      ]_vars

\* C17 witness: an agent seeded from a history file has had a turn appended
\* behind the entries of the file.
C17_Witness ==
    \E i \in 1..Len(heap) :
        /\ chat_log[i].seed # <<>>
        /\ Len(Appended(i)) >= 2
        /\ SubSeq(heap[i].history, 1, Len(chat_log[i].seed)) = chat_log[i].seed
        /\ \E n \in RawNames : bots[n] = i

\* C18: an agent becomes visible only after its history is seeded.  The step
\* that registers a name is taken by the create or deploy that holds
\* bots_lock for that name; the new agent's history is what
\* load_local_history returns for the name at that moment (the stored
\* entries, the empty list without a file); and until that step no thread
\* holds the agent, its lock, or a turn on it.
C18_SeededBeforeVisible ==
    [][ \A n \in RawNames :
          (bots[n] = NoBot /\ bots'[n] # NoBot)
          => LET i == bots'[n] IN
             /\ i = Len(heap) + 1
             /\ Len(heap') = i
             /\ bots_lock # NoThread
             /\ pc[bots_lock] \in {"create_insert", "deploy_insert"}
             /\ loc[bots_lock].name = n
             /\ ~load_local_history(n).raised
             /\ heap'[i].history = load_local_history(n).history
             /\ agent_lock'[i] = NoThread
             /\ \A t \in Threads : loc[t].inst # i /\ loc'[t].inst # i
      ]_vars

\* C18 witness: a create found a stored history for its name and registered
\* the agent with those entries.
C18_Witness ==
    \E t \in Threads :
        /\ pc[t] = "create_save"
        /\ bots[loc[t].name] # NoBot
        /\ local_file[loc[t].name] = FileJsonFmt(OldHistory, TRUE)
        /\ heap[bots[loc[t].name]].history = Stored(OldHistory)
        /\ heap[bots[loc[t].name]].history # <<>>

\* C19: the registry key is the agent's name.  Every name registered in bots
\* maps to an agent whose config carries that name, also when deploy built
\* the config from a blob of the memory server.
C19_KeyIsConfigName ==
    \A n \in RawNames :
        bots[n] # NoBot => heap[bots[n]].cfg.name = n

\* A lock is held only by a thread inside the with block that took it: no
\* thread that has left its critical section, on any path, still holds
\* bots_lock or an agent's lock, and no thread holds both kinds at once.
LocksHeldInside ==
    /\ bots_lock # NoThread
          => pc[bots_lock] \in {"create_insert", "deploy_fetch", "deploy_insert"}
    /\ \A i \in 1..Len(heap) :
          agent_lock[i] # NoThread
          => /\ pc[agent_lock[i]] = "chat_generate"
             /\ loc[agent_lock[i]].inst = i
             /\ bots_lock # agent_lock[i]

\* C20: deadlock freedom and lock release.  Locks are held only inside their
\* critical sections, whatever path leaves them, and under fair scheduling
\* every request a thread has started is answered: a thread that serves a
\* request is idle again later, that is, every thread is idle again and
\* again.
C20_EveryRequestCompletes ==
    /\ []LocksHeldInside
    /\ \A t \in Threads : []<>(pc[t] = "idle")

\* C20 witness: a chat request ended with the exception of the pipeline call
\* while another chat request waits at the lock of the same agent, and the
\* lock is free.
C20_Witness ==
    \E t, u \in Threads :
        /\ pc[t] = "done"
        /\ result[t].tag = "generation raised"
        /\ pc[u] = "chat_enter"
        /\ loc[u].inst = loc[t].inst
        /\ agent_lock[loc[t].inst] = NoThread
        /\ bots_lock = NoThread

=============================================================================
